---------------------------- MODULE Spec2Model ----------------------------
(***************************************************************************)
(* A model of the ionic-cloud authentication client:                       *)
(*   - CombinedAuthTokenContext (two storage tiers behind one label),      *)
(*   - Auth (login / signup / logout / storeToken),                        *)
(*   - AuthType.inAppBrowserFlow (the in-app-browser OAuth handshake),     *)
(*   - BasicAuth (authenticate, signup) and getDetailedErrorFromResponse,  *)
(*   - Cordova (bootstrap, load and the document's events).                *)
(*                                                                         *)
(* JavaScript strings are sequences of one-character strings, so that      *)
(* slice and split are computed as the code computes them.  The value      *)
(* `undefined` is a sequence no string equals.                             *)
(***************************************************************************)
EXTENDS Naturals, Sequences, FiniteSets, TLC

VARIABLES
    storage,      \* deps.storage: the durable tier, label -> value
    tempStorage,  \* deps.tempStorage: the ephemeral tier, label -> value
    authModules,  \* Auth.authModules: the registered module identifiers
    authToken,    \* Auth.authToken: the cached last token
    emitted,      \* the 'auth:token-changed' payloads emitted so far
    user,         \* the user service's singleton: loaded / stored
    logins,       \* the Auth.login calls: the position of each promise chain
    iab,          \* whether window.cordova.InAppBrowser is there
    request,      \* the login-initiation request of the browser flow
    deferred,     \* the DeferredPromise of the browser flow
    surface,      \* the browser surface w and its listeners
    signup,       \* the BasicAuth.signup call: its request and its promise
    cordova,      \* the Cordova service, the document's listeners and scripts
    last          \* the last call made and what it returned

vars == <<storage, tempStorage, authModules, authToken, emitted, user, logins,
          iab, request, deferred, surface, signup, cordova, last>>

\* The state of the browser flow.
flowvars == <<iab, request, deferred, surface>>

\* The state of the signup call and of the Cordova service.
othervars == <<signup, cordova>>

-----------------------------------------------------------------------------
(* Bounds *)

\* The Auth.login calls of one behaviour.
MaxLogins == 2

\* The direct Auth.storeToken calls of one behaviour of the context model.
MaxEvents == 2

-----------------------------------------------------------------------------
(* Values *)

\* JavaScript's undefined: what storage.get gives for a missing label and
\* what an uninitialised field holds.  No string equals it.
Absent == <<"undefined">>

Empty == <<>>
T1 == <<"t", "1">>
T2 == <<"t", "2">>

\* The token strings an authentication module can resolve with.
Tokens == {Empty, T1, T2}

Val == Tokens \cup {Absent}

Labels == {"L1", "L2"}

\* The label of the token context injected into Auth.
AuthLabel == "L1"

\* JavaScript truthiness of a string-or-undefined value.
Truthy(v) == v # Absent /\ v # Empty

\* JavaScript a || b.
Or(a, b) == IF Truthy(a) THEN a ELSE b

-----------------------------------------------------------------------------
(* IStorage<string>: get / set / delete on one tier *)

StorageGet(s, label) == s[label]

StorageSet(s, label, value) == [s EXCEPT ![label] = value]

StorageDelete(s, label) == [s EXCEPT ![label] = Absent]

-----------------------------------------------------------------------------
(* CombinedAuthTokenContext *)

\* A plausible slip in get: the durable tier preferred.
CombinedGetPermFirst(perm, temp, label) ==
    LET permToken == StorageGet(perm, label)
        tempToken == StorageGet(temp, label)
    IN  Or(permToken, tempToken)

\* get(): tempToken || permToken
CombinedGet(perm, temp, label) ==
    LET permToken == StorageGet(perm, label)
        tempToken == StorageGet(temp, label)
    IN  Or(tempToken, permToken)

\* A plausible slip in store: the test of options.permanent inverted.
CombinedStoreInverted(perm, temp, label, token, permanent) ==
    IF ~permanent
    THEN [perm |-> StorageSet(perm, label, token), temp |-> temp]
    ELSE [perm |-> perm, temp |-> StorageSet(temp, label, token)]

\* A plausible slip in store: the token written to both tiers.
CombinedStoreBoth(perm, temp, label, token, permanent) ==
    [perm |-> StorageSet(perm, label, token), temp |-> StorageSet(temp, label, token)]

\* store(token, options): the two tiers after the call
CombinedStore(perm, temp, label, token, permanent) ==
    IF permanent
    THEN [perm |-> StorageSet(perm, label, token), temp |-> temp]
    ELSE [perm |-> perm, temp |-> StorageSet(temp, label, token)]

\* store's default options: {'permanent': true}
DefaultPermanent == TRUE

\* A plausible slip in delete: only the durable tier is cleared.
CombinedDeletePermOnly(perm, temp, label) ==
    [perm |-> StorageDelete(perm, label), temp |-> temp]

\* A plausible slip in delete: only the ephemeral tier is cleared.
CombinedDeleteTempOnly(perm, temp, label) ==
    [perm |-> perm, temp |-> StorageDelete(temp, label)]

\* delete(): the two tiers after the call
CombinedDelete(perm, temp, label) ==
    [perm |-> StorageDelete(perm, label), temp |-> StorageDelete(temp, label)]

-----------------------------------------------------------------------------
(* DeferredPromise and the browser surface *)

\* new DeferredPromise()
Pending == [state |-> "pending", value |-> Absent, error |-> "none"]

\* deferred.resolve(value): a promise settles once
Resolve(d, value) ==
    IF d.state = "pending"
    THEN [state |-> "resolved", value |-> value, error |-> "none"]
    ELSE d

\* A deferred that could be settled again: a later reject overwrites.
RejectOverwrites(d, error) ==
    [state |-> "rejected", value |-> Absent, error |-> error]

\* deferred.reject(error): a promise settles once
Reject(d, error) ==
    IF d.state = "pending"
    THEN [state |-> "rejected", value |-> Absent, error |-> error]
    ELSE d

\* The events the flow listens to on the surface.
SurfaceEvents == {"exit", "loaderror", "loadstart"}

\* No surface opened.
NoSurface == [open |-> FALSE, listeners |-> {}, closes |-> 0,
              removed |-> [e \in SurfaceEvents |-> 0]]

\* window.cordova.InAppBrowser.open(url, '_blank', flags)
OpenSurface == [NoSurface EXCEPT !.open = TRUE]

\* w.addEventListener(event, handler)
AddEventListener(w, event) == [w EXCEPT !.listeners = @ \cup {event}]

\* w.removeEventListener(event, handler)
RemoveEventListener(w, event) ==
    [w EXCEPT !.listeners = @ \ {event}, !.removed[event] = @ + 1]

\* w.close()
Close(w) == [w EXCEPT !.open = FALSE, !.closes = @ + 1]

\* The browser flow not started.
FlowIdle ==
    /\ iab = FALSE
    /\ request = [state |-> "none", method |-> "", provider |-> ""]
    /\ deferred = Pending
    /\ surface = NoSurface

\* No signup made yet.
NoSignup == [state |-> "none", request |-> "none", payload |-> {}, codes |-> <<>>]

\* The DOM events Cordova.bootstrap listens to.
DomEvents == {"deviceready", "pause", "resume"}

\* A document nothing was registered on, with no script, and no cordova global.
NoCordova ==
    [bootstraps |-> 0, fired |-> 0,
     listeners |-> [e \in DomEvents |-> 0], emitted |-> <<>>,
     defined |-> FALSE, deviceType |-> "unknown", fileHref |-> FALSE,
     resource |-> "none", scripts |-> <<>>]

OtherIdle ==
    /\ signup = NoSignup
    /\ cordova = NoCordova

-----------------------------------------------------------------------------
(* Strings: slice, split and the query parameters of a URL *)

Min(a, b) == IF a < b THEN a ELSE b

\* s.slice(0, n)
Slice0(s, n) == SubSeq(s, 1, Min(n, Len(s)))

\* The first position of character c in s, 0 when there is none.
RECURSIVE IndexOf(_, _, _)
IndexOf(s, c, from) ==
    IF from > Len(s) THEN 0
    ELSE IF s[from] = c THEN from
    ELSE IndexOf(s, c, from + 1)

\* s.split(c): the pieces of s between the occurrences of c, at least one
RECURSIVE Split(_, _)
Split(s, c) ==
    LET k == IndexOf(s, c, 1)
    IN  IF k = 0 THEN <<s>>
        ELSE <<SubSeq(s, 1, k - 1)>> \o Split(SubSeq(s, k + 1, Len(s)), c)

\* array[i] with JavaScript's indices from 0: undefined past the end
At(array, i) == IF i + 1 <= Len(array) THEN array[i + 1] ELSE Absent

\* params[key] after the loop params[part[0]] = part[1] over paramParts:
\* the value of the last part with that key, undefined when there is none
RECURSIVE ParamsGet(_, _, _)
ParamsGet(paramParts, key, n) ==
    IF n = 0 THEN Absent
    ELSE LET part == Split(paramParts[n], "=")
         IN  IF At(part, 0) = key THEN At(part, 1)
             ELSE ParamsGet(paramParts, key, n - 1)

\* 'http://auth.ionic.io'
ExpectedPrefix == <<"h", "t", "t", "p", ":", "/", "/", "a", "u", "t", "h", ".", "i", "o", "n", "i", "c", ".", "i", "o">>

\* The length of the slice compared with the prefix.
PrefixLen == 20

TokenKey == <<"t", "o", "k", "e", "n">>

\* data.url.slice(0, 20) === 'http://auth.ionic.io'
MatchesPrefix(url) == Slice0(url, PrefixLen) = ExpectedPrefix

\* data.url.split('#')[0].split('?')[1]
QueryString(url) == At(Split(At(Split(url, "#"), 0), "?"), 1)

\* The URLs the surface navigates to.
UrlToken1 == ExpectedPrefix \o <<"/", "?", "t", "o", "k", "e", "n", "=", "t", "1">>
UrlToken2 == ExpectedPrefix \o <<"/", "c", "b", "?", "a", "=", "b", "&", "t", "o", "k", "e", "n", "=", "t", "2", "#", "x">>
UrlNoQuery == ExpectedPrefix \o <<"/", "c", "b">>
UrlNoToken == ExpectedPrefix \o <<"/", "?", "a", "=", "b">>
UrlEmptyToken == ExpectedPrefix \o <<"/", "?", "t", "o", "k", "e", "n", "=">>
UrlFragment == ExpectedPrefix \o <<"/", "#", "?", "t", "o", "k", "e", "n", "=", "t", "1">>
UrlOther == <<"h", "t", "t", "p", ":", "/", "/", "e", "v", "i", "l", ".", "i", "o", "/", "?", "t", "o", "k", "e", "n", "=", "t", "1">>
UrlHttps == <<"h", "t", "t", "p", "s", ":", "/", "/", "a", "u", "t", "h", ".", "i", "o", "n", "i", "c", ".", "i", "o", "/", "?", "t", "o", "k", "e", "n", "=", "t", "1">>
UrlBlank == <<"a", "b", "o", "u", "t", ":", "b", "l", "a", "n", "k">>

Urls == {UrlToken1, UrlToken2, UrlNoQuery, UrlNoToken, UrlEmptyToken,
         UrlFragment, UrlOther, UrlHttps, UrlBlank}

-----------------------------------------------------------------------------
(* The record of the last call *)

\* No response: the shape of a response and its error details.
NoResponse == [shape |-> "none", kind |-> "undefined", items |-> <<>>]

NoCall == [op |-> "none", id |-> "", arg |-> Absent, opt |-> FALSE,
           slot |-> 0, threw |-> FALSE, called |-> "none", ret |-> Absent,
           err |-> "none", preS |-> Absent, preT |-> Absent, url |-> <<>>,
           email |-> Absent, password |-> Absent, afterLogout |-> FALSE,
           res |-> NoResponse, codes |-> <<>>]

\* A call on a token context: the tiers' values for the label before it.
CtxCall(op, label, token, permanent, ret) ==
    [NoCall EXCEPT !.op = op, !.id = label, !.arg = token, !.opt = permanent,
                   !.ret = ret,
                   !.preS = storage[label], !.preT = tempStorage[label]]

-----------------------------------------------------------------------------
(* The token context alone: the contexts of every label over the two tiers *)

\* A login not made yet.
NoLogin == [phase |-> "idle", module |-> "", remember |-> FALSE, err |-> "none"]

AuthIdle ==
    /\ authModules = {}
    /\ authToken = Absent
    /\ emitted = <<>>
    /\ user = [loaded |-> FALSE, stored |-> FALSE]
    /\ logins = [i \in 1..MaxLogins |-> NoLogin]

InitCtx ==
    /\ storage \in [Labels -> Val]
    /\ tempStorage \in [Labels -> Val]
    /\ AuthIdle
    /\ FlowIdle
    /\ OtherIdle
    /\ last = NoCall

AuthUnchanged ==
    UNCHANGED <<authModules, authToken, emitted, user, logins, flowvars, othervars>>

\* context.get()
CtxGet(label) ==
    /\ last' = CtxCall("get", label, Absent, FALSE,
                       CombinedGet(storage, tempStorage, label))
    /\ UNCHANGED <<storage, tempStorage>>
    /\ AuthUnchanged

\* context.store(token, {'permanent': permanent})
CtxStore(label, token, permanent) ==
    /\ storage' = CombinedStore(storage, tempStorage, label, token, permanent).perm
    /\ tempStorage' = CombinedStore(storage, tempStorage, label, token, permanent).temp
    /\ last' = CtxCall("store", label, token, permanent, Absent)
    /\ AuthUnchanged

\* context.store(token): the options left to their default
CtxStoreDefault(label, token) ==
    /\ storage' = CombinedStore(storage, tempStorage, label, token, DefaultPermanent).perm
    /\ tempStorage' = CombinedStore(storage, tempStorage, label, token, DefaultPermanent).temp
    /\ last' = CtxCall("store", label, token, DefaultPermanent, Absent)
    /\ AuthUnchanged

\* context.delete()
CtxDelete(label) ==
    /\ storage' = CombinedDelete(storage, tempStorage, label).perm
    /\ tempStorage' = CombinedDelete(storage, tempStorage, label).temp
    /\ last' = CtxCall("delete", label, Absent, FALSE, Absent)
    /\ AuthUnchanged

-----------------------------------------------------------------------------
(* Auth *)

\* The module identifiers a caller may pass; "nonexistent" is never registered.
ModuleIds == {"basic", "twitter", "nonexistent"}

\* The registries an application may construct Auth with.
Registries == {{"basic", "twitter"}, {"twitter"}, {"basic"}}

\* The errors an authentication module rejects with.
AuthErrors == {"InAppBrowser exit", "invalid credentials"}

\* A plausible slip in the lookup: the missing module not detected.
RegisteredAlways(moduleId) == TRUE

\* let context = this.authModules[moduleId]; if (!context) throw
Registered(moduleId) == moduleId \in authModules

\* isAuthenticated(): whether tokenContext.get() is truthy
IsAuthenticated == Truthy(CombinedGet(storage, tempStorage, AuthLabel))

\* A plausible slip in storeToken: the old token read after the overwrite.
StoreTokenOldAfter(remember, token) ==
    [authToken |-> token,
     tiers |-> CombinedStore(storage, tempStorage, AuthLabel, token, remember),
     emitted |-> Append(emitted, [old |-> token, new |-> token])]

\* A plausible slip in storeToken: the old token read from storage, not from
\* the cache.
StoreTokenOldFromStorage(remember, token) ==
    [authToken |-> token,
     tiers |-> CombinedStore(storage, tempStorage, AuthLabel, token, remember),
     emitted |-> Append(emitted, [old |-> CombinedGet(storage, tempStorage, AuthLabel),
                                  new |-> token])]

\* storeToken(options, token): the cache, the tiers and the events after it
StoreToken(remember, token) ==
    LET originalToken == authToken
    IN  [authToken |-> token,
         tiers |-> CombinedStore(storage, tempStorage, AuthLabel, token, remember),
         emitted |-> Append(emitted, [old |-> originalToken, new |-> token])]

\* A plausible slip in login: a rejection handler that swallows the error.
LoginRejectedSwallowed(i, e) == [logins EXCEPT ![i].phase = "resolved"]

\* login's chain has no rejection handler: a rejection of authenticate (or of
\* load) is the rejection of the promise login returned.
LoginRejected(i, e) == [logins EXCEPT ![i].phase = "rejected", ![i].err = e]

\* A call on Auth, or a callback of one of its promise chains.
AuthCall(op) == [NoCall EXCEPT !.op = op, !.id = AuthLabel]

Init ==
    /\ storage = [l \in Labels |-> Absent]
    /\ tempStorage = [l \in Labels |-> Absent]
    /\ authModules \in Registries
    /\ authToken = Absent
    /\ emitted = <<>>
    /\ user = [loaded |-> FALSE, stored |-> FALSE]
    /\ logins = [i \in 1..MaxLogins |-> NoLogin]
    /\ FlowIdle
    /\ OtherIdle
    /\ last = NoCall

\* login(moduleId, data, options)
Login(i, moduleId, remember) ==
    /\ logins[i].phase = "idle"
    /\ \A j \in 1..(i - 1) : logins[j].phase # "idle"
    /\ IF ~Registered(moduleId)
       THEN /\ last' = [AuthCall("login") EXCEPT !.id = moduleId, !.opt = remember,
                                                 !.threw = TRUE]
            /\ UNCHANGED logins
       ELSE /\ logins' = [logins EXCEPT ![i] = [phase |-> "auth", module |-> moduleId,
                                                remember |-> remember, err |-> "none"]]
            /\ last' = [AuthCall("login") EXCEPT !.id = moduleId, !.opt = remember,
                                                 !.slot = i, !.called = "authenticate"]
    /\ UNCHANGED <<storage, tempStorage, authModules, authToken, emitted, user>>
    /\ UNCHANGED <<flowvars, othervars>>

\* context.authenticate(data) resolves with a token: the first callback of
\* login.  The record of the call tells whether it came right after a logout.
AuthenticateResolve(i, token) ==
    /\ logins[i].phase = "auth"
    /\ LET st == StoreToken(logins[i].remember, token)
       IN  /\ authToken' = st.authToken
           /\ storage' = st.tiers.perm
           /\ tempStorage' = st.tiers.temp
           /\ emitted' = st.emitted
    /\ logins' = [logins EXCEPT ![i].phase = "load"]
    /\ last' = [AuthCall("authResolved") EXCEPT !.slot = i, !.arg = token,
                                                !.opt = logins[i].remember,
                                                !.called = "load",
                                                !.afterLogout = (last.op = "logout")]
    /\ UNCHANGED <<authModules, user>>
    /\ UNCHANGED <<flowvars, othervars>>

\* context.authenticate(data) rejects
AuthenticateReject(i, e) ==
    /\ logins[i].phase = "auth"
    /\ logins' = LoginRejected(i, e)
    /\ last' = [AuthCall("authRejected") EXCEPT !.slot = i, !.err = e]
    /\ UNCHANGED <<storage, tempStorage, authModules, authToken, emitted, user>>
    /\ UNCHANGED <<flowvars, othervars>>

\* userService.load() resolves: the second callback of login
LoadResolve(i) ==
    /\ logins[i].phase = "load"
    /\ user' = [loaded |-> TRUE, stored |-> TRUE]
    /\ logins' = [logins EXCEPT ![i].phase = "resolved"]
    /\ last' = [AuthCall("loadResolved") EXCEPT !.slot = i]
    /\ UNCHANGED <<storage, tempStorage, authModules, authToken, emitted>>
    /\ UNCHANGED <<flowvars, othervars>>

\* A load() failure that would take the token back.
LoadRejectRollsBack(i) ==
    /\ logins[i].phase = "load"
    /\ logins' = LoginRejected(i, "load failed")
    /\ storage' = CombinedDelete(storage, tempStorage, AuthLabel).perm
    /\ tempStorage' = CombinedDelete(storage, tempStorage, AuthLabel).temp
    /\ last' = [AuthCall("loadRejected") EXCEPT !.slot = i, !.err = "load failed"]
    /\ UNCHANGED <<authModules, authToken, emitted, user>>
    /\ UNCHANGED <<flowvars, othervars>>

\* userService.load() rejects
LoadReject(i) ==
    /\ logins[i].phase = "load"
    /\ logins' = LoginRejected(i, "load failed")
    /\ last' = [AuthCall("loadRejected") EXCEPT !.slot = i, !.err = "load failed"]
    /\ UNCHANGED <<storage, tempStorage, authModules, authToken, emitted, user>>
    /\ UNCHANGED <<flowvars, othervars>>

\* signup(data)
Signup ==
    /\ IF ~Registered("basic")
       THEN last' = [AuthCall("signup") EXCEPT !.id = "basic", !.threw = TRUE]
       ELSE last' = [AuthCall("signup") EXCEPT !.id = "basic", !.called = "signup"]
    /\ UNCHANGED <<storage, tempStorage, authModules, authToken, emitted, user, logins>>
    /\ UNCHANGED <<flowvars, othervars>>

\* A logout that would cancel the logins in flight.
LogoutCancelsLogins ==
    /\ storage' = CombinedDelete(storage, tempStorage, AuthLabel).perm
    /\ tempStorage' = CombinedDelete(storage, tempStorage, AuthLabel).temp
    /\ user' = [loaded |-> FALSE, stored |-> FALSE]
    /\ logins' = [i \in 1..MaxLogins |->
                     IF logins[i].phase = "auth"
                     THEN [logins[i] EXCEPT !.phase = "rejected", !.err = "cancelled"]
                     ELSE logins[i]]
    /\ last' = [AuthCall("logout") EXCEPT !.preS = storage[AuthLabel],
                                          !.preT = tempStorage[AuthLabel]]
    /\ UNCHANGED <<authModules, authToken, emitted>>
    /\ UNCHANGED <<flowvars, othervars>>

\* A logout that would cancel the browser flow in flight.
LogoutCancelsFlow ==
    /\ storage' = CombinedDelete(storage, tempStorage, AuthLabel).perm
    /\ tempStorage' = CombinedDelete(storage, tempStorage, AuthLabel).temp
    /\ user' = [loaded |-> FALSE, stored |-> FALSE]
    /\ deferred' = Reject(deferred, "cancelled")
    /\ last' = [AuthCall("logout") EXCEPT !.preS = storage[AuthLabel],
                                          !.preT = tempStorage[AuthLabel]]
    /\ UNCHANGED <<authModules, authToken, emitted, logins, iab, request, surface>>
    /\ UNCHANGED othervars

\* logout()
Logout ==
    /\ storage' = CombinedDelete(storage, tempStorage, AuthLabel).perm
    /\ tempStorage' = CombinedDelete(storage, tempStorage, AuthLabel).temp
    /\ user' = [loaded |-> FALSE, stored |-> FALSE]
    /\ last' = [AuthCall("logout") EXCEPT !.preS = storage[AuthLabel],
                                          !.preT = tempStorage[AuthLabel]]
    /\ UNCHANGED <<authModules, authToken, emitted, logins>>
    /\ UNCHANGED <<flowvars, othervars>>

Next ==
    \/ \E i \in 1..MaxLogins, m \in ModuleIds, r \in BOOLEAN : Login(i, m, r)
    \/ \E i \in 1..MaxLogins, t \in Tokens : AuthenticateResolve(i, t)
    \/ \E i \in 1..MaxLogins, e \in AuthErrors : AuthenticateReject(i, e)
    \/ \E i \in 1..MaxLogins : LoadResolve(i)
    \/ \E i \in 1..MaxLogins : LoadReject(i)
    \/ Signup
    \/ Logout

Spec == Init /\ [][Next]_vars

-----------------------------------------------------------------------------
(* AuthType.inAppBrowserFlow under one Auth.login *)

\* The modules whose authenticate is the browser flow.
BrowserModules == {"twitter", "custom"}

\* The slot of the login the flow belongs to.
FlowLoginSlot == 1

ErrPluginMissing == "InAppBrowser plugin missing"
ErrTransport == "transport error"
ErrExit == "InAppBrowser exit"
ErrLoadError == "InAppBrowser loaderror"
ErrUnexpectedUrl == "Unexpected url in API response"

\* A plausible slip in onLoadStart: a URL off the prefix is ignored.
OnLoadStartIgnoresMismatch(d, w, url) ==
    IF MatchesPrefix(url)
    THEN LET queryString == QueryString(url)
         IN  IF queryString = Absent
             THEN [threw |-> TRUE, deferred |-> d, surface |-> w]
             ELSE LET paramParts == Split(queryString, "&")
                      token == ParamsGet(paramParts, TokenKey, Len(paramParts))
                  IN  [threw |-> FALSE,
                       deferred |-> Resolve(d, token),
                       surface |-> Close(RemoveEventListener(
                                       RemoveEventListener(w, "exit"), "loaderror"))]
    ELSE [threw |-> FALSE, deferred |-> d, surface |-> w]

\* onLoadStart(data): whether it threw, the deferred and the surface after it.
\* queryString.split('&') on an undefined queryString is a TypeError, thrown
\* before the listeners are removed.
OnLoadStart(d, w, url) ==
    IF MatchesPrefix(url)
    THEN LET queryString == QueryString(url)
         IN  IF queryString = Absent
             THEN [threw |-> TRUE, deferred |-> d, surface |-> w]
             ELSE LET paramParts == Split(queryString, "&")
                      token == ParamsGet(paramParts, TokenKey, Len(paramParts))
                  IN  [threw |-> FALSE,
                       deferred |-> Resolve(d, token),
                       surface |-> Close(RemoveEventListener(
                                       RemoveEventListener(w, "exit"), "loaderror"))]
    ELSE [threw |-> FALSE, deferred |-> Reject(d, ErrUnexpectedUrl), surface |-> w]

\* A call or an event of the flow; opt tells whether the deferred was pending.
FlowCall(op) ==
    [NoCall EXCEPT !.op = op, !.slot = FlowLoginSlot,
                   !.opt = (deferred.state = "pending")]

\* The callbacks login chained on the flow's promise, run when the deferred
\* goes from d to dNew: storeToken and load() on a resolution, the rejection
\* of login's promise on a rejection, nothing when the deferred did not settle.
Settled(d, dNew) ==
    LET i == FlowLoginSlot
    IN  IF d.state = "pending" /\ dNew.state = "resolved"
        THEN LET st == StoreToken(logins[i].remember, dNew.value)
             IN  /\ authToken' = st.authToken
                 /\ storage' = st.tiers.perm
                 /\ tempStorage' = st.tiers.temp
                 /\ emitted' = st.emitted
                 /\ logins' = [logins EXCEPT ![i].phase = "load"]
        ELSE IF d.state = "pending" /\ dNew.state = "rejected"
        THEN /\ logins' = LoginRejected(i, dNew.error)
             /\ UNCHANGED <<authToken, storage, tempStorage, emitted>>
        ELSE UNCHANGED <<authToken, storage, tempStorage, emitted, logins>>

InitFlow ==
    /\ storage = [l \in Labels |-> Absent]
    /\ tempStorage = [l \in Labels |-> Absent]
    /\ authModules = {"basic"} \cup BrowserModules
    /\ authToken = Absent
    /\ emitted = <<>>
    /\ user = [loaded |-> FALSE, stored |-> FALSE]
    /\ logins = [i \in 1..MaxLogins |-> NoLogin]
    /\ iab \in BOOLEAN
    /\ request = [state |-> "none", method |-> "", provider |-> ""]
    /\ deferred = Pending
    /\ surface = NoSurface
    /\ OtherIdle
    /\ last = NoCall

\* auth.login(moduleId, data, options) with a browser-flow module:
\* authenticate is inAppBrowserFlow({'provider': moduleId}, data)
FlowLogin(moduleId, remember) ==
    /\ logins[FlowLoginSlot].phase = "idle"
    /\ Registered(moduleId)
    /\ IF ~iab
       THEN /\ deferred' = Reject(Pending, ErrPluginMissing)
            /\ logins' = [logins EXCEPT ![FlowLoginSlot] =
                             [phase |-> "rejected", module |-> moduleId,
                              remember |-> remember, err |-> ErrPluginMissing]]
            /\ UNCHANGED request
       ELSE /\ deferred' = Pending
            /\ request' = [state |-> "pending", method |-> "POST",
                           provider |-> moduleId]
            /\ logins' = [logins EXCEPT ![FlowLoginSlot] =
                             [phase |-> "auth", module |-> moduleId,
                              remember |-> remember, err |-> "none"]]
    /\ last' = [FlowCall("login") EXCEPT !.id = moduleId, !.opt = remember,
                                        !.called = "authenticate"]
    /\ UNCHANGED <<storage, tempStorage, authModules, authToken, emitted, user,
                   iab, surface>>
    /\ UNCHANGED othervars

\* The credentials a caller may pass to BasicAuth.authenticate.
Email == <<"a", "@", "b">>
Password == <<"p", "w">>
Emails == {Absent, Empty, Email}
Passwords == {Absent, Empty, Password}

ErrValidation == "email and password are required for basic authentication"

\* A plausible slip in the credentials check: the password is not looked at.
CredentialsMissingEmailOnly(email, password) == ~Truthy(email)

\* !data.email || !data.password
CredentialsMissing(email, password) == ~Truthy(email) \/ ~Truthy(password)

\* auth.login('basic', {email, password}, options): authenticate is
\* BasicAuth.authenticate, which either rejects at once or posts to /auth/login
BasicLogin(email, password, remember) ==
    /\ logins[FlowLoginSlot].phase = "idle"
    /\ Registered("basic")
    /\ IF CredentialsMissing(email, password)
       THEN /\ deferred' = Reject(Pending, ErrValidation)
            /\ logins' = [logins EXCEPT ![FlowLoginSlot] =
                             [phase |-> "rejected", module |-> "basic",
                              remember |-> remember, err |-> ErrValidation]]
            /\ UNCHANGED request
       ELSE /\ deferred' = Pending
            /\ request' = [state |-> "pending", method |-> "POST",
                           provider |-> ""]
            /\ logins' = [logins EXCEPT ![FlowLoginSlot] =
                             [phase |-> "auth", module |-> "basic",
                              remember |-> remember, err |-> "none"]]
    /\ last' = [FlowCall("login") EXCEPT !.id = "basic", !.opt = remember,
                                        !.called = "authenticate",
                                        !.email = email, !.password = password]
    /\ UNCHANGED <<storage, tempStorage, authModules, authToken, emitted, user,
                   iab, surface>>
    /\ UNCHANGED othervars

\* .end((err, res) => ...) of BasicAuth.authenticate without err:
\* deferred.resolve(res.body.data.token)
BasicRequestSucceeds(token) ==
    /\ request.state = "pending"
    /\ logins[FlowLoginSlot].module = "basic"
    /\ request' = [request EXCEPT !.state = "done"]
    /\ deferred' = Resolve(deferred, token)
    /\ Settled(deferred, deferred')
    /\ last' = [FlowCall("requestSucceeded") EXCEPT !.arg = token]
    /\ UNCHANGED <<authModules, user, iab, surface>>
    /\ UNCHANGED othervars

\* .end((err, res) => ...) with err: deferred.reject(err)
RequestFails ==
    /\ request.state = "pending"
    /\ request' = [request EXCEPT !.state = "failed"]
    /\ deferred' = Reject(deferred, ErrTransport)
    /\ Settled(deferred, deferred')
    /\ last' = [FlowCall("requestFailed") EXCEPT !.err = ErrTransport]
    /\ UNCHANGED <<authModules, user, iab, surface>>
    /\ UNCHANGED othervars

\* .end((err, res) => ...) without err: the surface is opened and the three
\* listeners are attached
RequestSucceeds ==
    /\ request.state = "pending"
    /\ logins[FlowLoginSlot].module \in BrowserModules
    /\ request' = [request EXCEPT !.state = "done"]
    /\ surface' = AddEventListener(AddEventListener(AddEventListener(
                      OpenSurface, "exit"), "loaderror"), "loadstart")
    /\ last' = FlowCall("requestSucceeded")
    /\ UNCHANGED <<storage, tempStorage, authModules, authToken, emitted, user,
                   logins, iab, deferred>>
    /\ UNCHANGED othervars

\* The user closes the surface: onExit
Exit ==
    /\ surface.open /\ "exit" \in surface.listeners
    /\ surface' = [surface EXCEPT !.open = FALSE]
    /\ deferred' = Reject(deferred, ErrExit)
    /\ Settled(deferred, deferred')
    /\ last' = [FlowCall("exit") EXCEPT !.err = ErrExit]
    /\ UNCHANGED <<authModules, user, iab, request>>
    /\ UNCHANGED othervars

\* A page fails to load: onLoadError
LoadError ==
    /\ surface.open /\ "loaderror" \in surface.listeners
    /\ deferred' = Reject(deferred, ErrLoadError)
    /\ Settled(deferred, deferred')
    /\ last' = [FlowCall("loaderror") EXCEPT !.err = ErrLoadError]
    /\ UNCHANGED <<authModules, user, iab, request, surface>>
    /\ UNCHANGED othervars

\* The surface starts to load a URL: onLoadStart
LoadStart(url) ==
    /\ surface.open /\ "loadstart" \in surface.listeners
    /\ LET r == OnLoadStart(deferred, surface, url)
       IN  /\ deferred' = r.deferred
           /\ surface' = r.surface
           /\ last' = [FlowCall("loadstart") EXCEPT !.url = url, !.threw = r.threw]
    /\ Settled(deferred, deferred')
    /\ UNCHANGED <<authModules, user, iab, request>>
    /\ UNCHANGED othervars

\* userService.load() of the flow's login resolves or rejects
FlowLoadResolve == LoadResolve(FlowLoginSlot)

FlowLoadReject == LoadReject(FlowLoginSlot)

NextFlow ==
    \/ \E m \in BrowserModules, r \in BOOLEAN : FlowLogin(m, r)
    \/ \E e \in Emails, p \in Passwords, r \in BOOLEAN : BasicLogin(e, p, r)
    \/ \E t \in Tokens : BasicRequestSucceeds(t)
    \/ RequestFails
    \/ RequestSucceeds
    \/ Exit
    \/ LoadError
    \/ \E url \in Urls : LoadStart(url)
    \/ FlowLoadResolve
    \/ FlowLoadReject
    \/ Logout

SpecFlow == InitFlow /\ [][NextFlow]_vars

-----------------------------------------------------------------------------
(* The token contexts of every label, with Auth.storeToken on top of the one
   injected into Auth *)

\* auth.storeToken(options, token)
StoreTokenCall(remember, token) ==
    /\ Len(emitted) < MaxEvents
    /\ LET st == StoreToken(remember, token)
       IN  /\ authToken' = st.authToken
           /\ storage' = st.tiers.perm
           /\ tempStorage' = st.tiers.temp
           /\ emitted' = st.emitted
    /\ last' = CtxCall("storeToken", AuthLabel, token, remember, Absent)
    /\ UNCHANGED <<authModules, user, logins>>
    /\ UNCHANGED <<flowvars, othervars>>

NextCtx ==
    \/ \E l \in Labels : CtxGet(l)
    \/ \E l \in Labels, t \in Tokens, p \in BOOLEAN : CtxStore(l, t, p)
    \/ \E l \in Labels, t \in Tokens : CtxStoreDefault(l, t)
    \/ \E l \in Labels : CtxDelete(l)
    \/ \E r \in BOOLEAN, t \in Tokens : StoreTokenCall(r, t)

SpecCtx == InitCtx /\ [][NextCtx]_vars

-----------------------------------------------------------------------------
(* BasicAuth.signup and Auth.getDetailedErrorFromResponse *)

\* The longest list of error details a response carries.
MaxDetails == 2

Required == <<"r", "e", "q", "u", "i", "r", "e", "d">>
Conflict == <<"c", "o", "n", "f", "l", "i", "c", "t">>
ParamEmail == <<"e", "m", "a", "i", "l">>
ParamUsername == <<"u", "s", "e", "r", "n", "a", "m", "e">>
Underscore == <<"_">>
UndefinedText == <<"u", "n", "d", "e", "f", "i", "n", "e", "d">>

\* The string a value becomes when it is concatenated to a string.
StringOf(v) == IF v = Absent THEN UndefinedText ELSE v

\* An entry of details: null, or an object with error_type and parameter,
\* each of which may be missing.
NullDetail == [isNull |-> TRUE, error_type |-> Absent, parameter |-> Absent]

DetailValues ==
    {NullDetail} \cup
    [isNull : {FALSE}, error_type : {Absent, Empty, Required, Conflict},
     parameter : {Absent, ParamEmail, ParamUsername}]

DetailLists == UNION {[1..n -> DetailValues] : n \in 0..MaxDetails}

\* The shapes of err.response: undefined, without body, with a body without
\* error, or with body.error, whose details is missing, null, a number, a
\* string, an object that is no array, or an array.
Responses ==
    {[shape |-> sh, kind |-> "undefined", items |-> <<>>] :
        sh \in {"undefined", "noBody", "noError"}} \cup
    {[shape |-> "error", kind |-> k, items |-> <<>>] :
        k \in {"undefined", "null", "number", "string", "object"}} \cup
    {[shape |-> "error", kind |-> "array", items |-> l] : l \in DetailLists}

\* for (let i = 0; i < details.length; i++) { ... } from index i on, with the
\* errors pushed so far; detail.error_type on a null detail is a TypeError.
RECURSIVE DetailsLoop(_, _, _)
DetailsLoop(details, i, errors) ==
    IF i > Len(details)
    THEN [threw |-> FALSE, codes |-> errors]
    ELSE LET detail == details[i]
         IN  IF detail.isNull
             THEN [threw |-> TRUE, codes |-> errors]
             ELSE IF Truthy(detail.error_type)
             THEN DetailsLoop(details, i + 1,
                      Append(errors, detail.error_type \o Underscore
                                         \o StringOf(detail.parameter)))
             ELSE DetailsLoop(details, i + 1, errors)

\* Auth.getDetailedErrorFromResponse(res): whether it threw, and the codes of
\* the DetailedError it returned.  The try block covers the read of
\* res.body.error.details only: a read that throws leaves details = [], a read
\* that yields undefined or null makes details.length a TypeError outside the
\* try block.  A number or a plain object has no length (the loop does not
\* run); the characters of a string have no error_type.
GetDetailedErrorFromResponse(res) ==
    LET caught == res.shape # "error"
        kind == IF caught THEN "array" ELSE res.kind
        details == IF caught THEN <<>> ELSE res.items
    IN  IF kind \in {"undefined", "null"}
        THEN [threw |-> TRUE, codes |-> <<>>]
        ELSE IF kind # "array"
        THEN [threw |-> FALSE, codes |-> <<>>]
        ELSE DetailsLoop(details, 1, <<>>)

\* The optional fields of UserDetails, and the values a caller gives them.
OptionalFields == {"username", "image", "name", "custom"}
FieldValues == {Absent, Empty, <<"v">>}

\* userData: the required fields and the optional fields that are truthy
UserData(data) ==
    {"app_id", "email", "password"} \cup {f \in OptionalFields : Truthy(data[f])}

InitSignup ==
    /\ storage = [l \in Labels |-> Absent]
    /\ tempStorage = [l \in Labels |-> Absent]
    /\ authModules \in Registries
    /\ authToken = Absent
    /\ emitted = <<>>
    /\ user = [loaded |-> FALSE, stored |-> FALSE]
    /\ logins = [i \in 1..MaxLogins |-> NoLogin]
    /\ FlowIdle
    /\ OtherIdle
    /\ last = NoCall

SignupUnchanged ==
    UNCHANGED <<storage, tempStorage, authModules, authToken, emitted, user,
                logins, flowvars, cordova>>

\* auth.signup(data): throws without the basic module, else BasicAuth.signup
\* posts userData to /users
BasicSignup(data) ==
    /\ signup.state = "none"
    /\ IF ~Registered("basic")
       THEN /\ last' = [AuthCall("signup") EXCEPT !.id = "basic", !.threw = TRUE]
            /\ UNCHANGED signup
       ELSE /\ signup' = [state |-> "pending", request |-> "pending",
                          payload |-> UserData(data), codes |-> <<>>]
            /\ last' = [AuthCall("signup") EXCEPT !.id = "basic",
                                                 !.called = "signup"]
    /\ SignupUnchanged

\* .end((err, res) => ...) without err: deferred.resolve()
SignupSucceeds ==
    /\ signup.request = "pending"
    /\ signup' = [signup EXCEPT !.request = "done", !.state = "resolved"]
    /\ last' = AuthCall("signupSucceeded")
    /\ SignupUnchanged

\* .end((err, res) => ...) with err:
\* deferred.reject(Auth.getDetailedErrorFromResponse(err.response)); when the
\* call throws, the callback ends before deferred.reject
SignupFails(res) ==
    /\ signup.request = "pending"
    /\ LET r == GetDetailedErrorFromResponse(res)
       IN  /\ signup' = IF r.threw
                        THEN [signup EXCEPT !.request = "failed"]
                        ELSE [signup EXCEPT !.request = "failed",
                                            !.state = "rejected",
                                            !.codes = r.codes]
           /\ last' = [AuthCall("signupFailed") EXCEPT !.res = res,
                                                      !.threw = r.threw,
                                                      !.codes = r.codes]
    /\ SignupUnchanged

NextSignup ==
    \/ \E data \in [OptionalFields -> FieldValues] : BasicSignup(data)
    \/ SignupSucceeds
    \/ \E res \in Responses : SignupFails(res)

SpecSignup == InitSignup /\ [][NextSignup]_vars

-----------------------------------------------------------------------------
(* Cordova: bootstrap, load and the DOM events of the document *)

\* The bootstrap() calls of one behaviour.
MaxBootstraps == 2

\* The DOM events the document dispatches in one behaviour.
MaxDomEvents == 3

\* 'cordova.js'
CordovaJs == <<"c", "o", "r", "d", "o", "v", "a", ".", "j", "s">>
\* 'file:///android_asset/www/cordova.js'
AndroidAssetSrc == <<"f", "i", "l", "e", ":", "/", "/", "/", "a", "n", "d", "r", "o", "i", "d", "_", "a", "s", "s", "e", "t", "/", "w", "w", "w", "/", "c", "o", "r", "d", "o", "v", "a", ".", "j", "s">>
\* The decoded cordova_js_bootstrap_resource parameter of an iOS location.
ResourceSrc == <<"r", "e", "s", "/", "b", "o", "o", "t", ".", "j", "s">>
\* The src of scripts a document may hold before bootstrap.
ScriptApp == <<"j", "s", "/", "a", "p", "p", ".", "j", "s">>
ScriptCordova == <<"l", "i", "b", "/", "c", "o", "r", "d", "o", "v", "a", ".", "j", "s">>

\* The script elements of a document before bootstrap: none, one that is not
\* cordova.js, or one without src followed by a cordova.js.
InitialScripts == {<<>>, <<ScriptApp>>, <<Absent, ScriptCordova>>}

DeviceTypes == {"android", "ipad", "iphone", "unknown"}

\* What location.search holds of cordova_js_bootstrap_resource: no match, a
\* match that decodes, or a match decodeURI throws on.
Resources == {"none", "found", "malformed"}

\* parts[partsLength - 1] === 'cordova.js' for the parts of script.split('/')
IsCordovaScript(script) ==
    LET parts == Split(script, "/")
        partsLength == Len(parts)
    IN  At(parts, partsLength - 1) = CordovaJs

\* isAvailable(): the cordova global is defined, or a script whose src ends in
\* /cordova.js is in the document
IsAvailable(c) ==
    \/ c.defined
    \/ \E i \in 1..Len(c.scripts) :
           /\ Truthy(c.scripts[i])
           /\ IsCordovaScript(c.scripts[i])

\* cordovaSrc after the switch on device.deviceType
CordovaSrc(c) ==
    IF c.deviceType = "android"
    THEN IF c.fileHref THEN AndroidAssetSrc ELSE CordovaJs
    ELSE IF c.deviceType \in {"ipad", "iphone"}
    THEN IF c.resource = "found" THEN ResourceSrc ELSE CordovaJs
    ELSE CordovaJs

\* load(): a script element is appended unless cordova is available
Load(c) ==
    IF ~IsAvailable(c)
    THEN [c EXCEPT !.scripts = Append(@, CordovaSrc(c))]
    ELSE c

\* A bootstrap that would listen to pause and resume at once.
BootstrapListenersAll(l) == [e \in DomEvents |-> l[e] + 1]

\* The document's listeners after bootstrap's addEventListener('deviceready')
BootstrapListeners(l) == [l EXCEPT !["deviceready"] = @ + 1]

\* 'cordova:' + e
EventName(e) ==
    CASE e = "deviceready" -> "cordova:deviceready"
      [] e = "pause" -> "cordova:pause"
      [] e = "resume" -> "cordova:resume"

\* n times the same element.
Copies(n, x) == [k \in 1..n |-> x]

\* The document dispatches the event e: each listener bootstrap registered for
\* it emits 'cordova:' + e, and each deviceready listener registers one more
\* listener for each of pause and resume.
Dispatch(c, e) ==
    LET n == c.listeners[e]
        d == [c EXCEPT !.emitted = @ \o Copies(n, EventName(e)),
                       !.fired = @ + 1]
    IN  IF e = "deviceready"
        THEN [d EXCEPT !.listeners = [@ EXCEPT !["pause"] = @ + n,
                                               !["resume"] = @ + n]]
        ELSE d

InitCordova ==
    /\ storage = [l \in Labels |-> Absent]
    /\ tempStorage = [l \in Labels |-> Absent]
    /\ AuthIdle
    /\ FlowIdle
    /\ signup = NoSignup
    /\ \E d \in BOOLEAN, t \in DeviceTypes, f \in BOOLEAN, r \in Resources,
          sc \in InitialScripts :
           cordova = [NoCordova EXCEPT !.defined = d, !.deviceType = t,
                                       !.fileHref = f, !.resource = r,
                                       !.scripts = sc]
    /\ last = NoCall

CordovaUnchanged ==
    UNCHANGED <<storage, tempStorage, authModules, authToken, emitted, user,
                logins, flowvars, signup>>

\* cordova.bootstrap()
Bootstrap ==
    /\ cordova.bootstraps < MaxBootstraps
    /\ cordova' = Load([cordova EXCEPT !.bootstraps = @ + 1,
                                       !.listeners = BootstrapListeners(@)])
    /\ last' = [NoCall EXCEPT !.op = "bootstrap"]
    /\ CordovaUnchanged

\* The document dispatches deviceready, pause or resume; the record of the
\* event tells how many listeners it had.
DomEvent(e) ==
    /\ cordova.fired < MaxDomEvents
    /\ cordova' = Dispatch(cordova, e)
    /\ last' = [NoCall EXCEPT !.op = "dom", !.id = e,
                              !.slot = cordova.listeners[e]]
    /\ CordovaUnchanged

NextCordova ==
    \/ Bootstrap
    \/ \E e \in DomEvents : DomEvent(e)

SpecCordova == InitCordova /\ [][NextCordova]_vars

-----------------------------------------------------------------------------
(* Claims about the token context, checked under SpecCtx *)

\* What get() returns now on the context of the label.
GetNow(label) == CombinedGet(storage, tempStorage, label)

\* C4 as stated: for every label, every non-empty token T and every prior
\* content of the two tiers, store(T, {permanent: true}) followed by get()
\* returns T.
C4_AsStated ==
    (last.op = "store" /\ last.opt /\ Truthy(last.arg))
        => GetNow(last.id) = last.arg

\* C4 amended: store(T, {permanent: true}) with T non-empty followed by get()
\* returns T when the ephemeral tier held no non-empty value for the label,
\* and returns the ephemeral tier's value when it held a non-empty one.
C4_StoreThenGet ==
    (last.op = "store" /\ last.opt /\ Truthy(last.arg))
        => /\ storage[last.id] = last.arg
           /\ GetNow(last.id) = IF Truthy(last.preT) THEN last.preT ELSE last.arg

\* C4 witness: a permanent store of a non-empty token over a durable tier that
\* held another token and an ephemeral tier that held the empty string.
C4_Witness ==
    /\ last.op = "store" /\ last.opt /\ Truthy(last.arg)
    /\ Truthy(last.preS) /\ last.preS # last.arg
    /\ last.preT = Empty
    /\ GetNow(last.id) = last.arg

\* C5 as stated: get() returns the ephemeral tier's value when one is present,
\* otherwise the durable tier's value, otherwise absent.
C5_AsStated ==
    last.op = "get"
        => last.ret = IF last.preT # Absent THEN last.preT ELSE last.preS

\* C5 amended: get() returns the ephemeral tier's value when it is present and
\* non-empty, otherwise the durable tier's value (absent when that tier holds
\* nothing); after a store of a non-empty token in the ephemeral tier get()
\* returns that token whatever the durable tier holds.
C5_EphemeralWins ==
    /\ last.op = "get"
        => last.ret = IF Truthy(last.preT) THEN last.preT ELSE last.preS
    /\ (last.op = "store" /\ ~last.opt /\ Truthy(last.arg))
        => GetNow(last.id) = last.arg

\* C5 witness: get() on a label whose two tiers hold different non-empty
\* tokens returned the ephemeral one.
C5_Witness ==
    /\ last.op = "get"
    /\ Truthy(last.preT) /\ Truthy(last.preS) /\ last.preT # last.preS
    /\ last.ret = last.preT

\* C7: delete() leaves both tiers without a value for the label, whichever
\* tier held one, so get() returns absent; it raises no error, also when
\* nothing was stored (a repeated delete).
C7_DeleteClearsBoth ==
    last.op = "delete"
        => /\ ~last.threw
           /\ storage[last.id] = Absent
           /\ tempStorage[last.id] = Absent
           /\ GetNow(last.id) = Absent

\* C7 witness: delete() on a label whose tiers both held a non-empty token.
C7_Witness ==
    /\ last.op = "delete"
    /\ Truthy(last.preS) /\ Truthy(last.preT)
    /\ GetNow(last.id) = Absent

\* C6: store(token, {permanent}) writes the durable tier alone when permanent
\* is true and the ephemeral tier alone when it is false, and leaves the other
\* tier as it was; storeToken passes options.remember as permanent, so with
\* remember false only the ephemeral tier is written.
C6_StoreWritesOneTier ==
    [][ (last'.op \in {"store", "storeToken"})
          => IF last'.opt
             THEN /\ storage' = [storage EXCEPT ![last'.id] = last'.arg]
                  /\ tempStorage' = tempStorage
             ELSE /\ tempStorage' = [tempStorage EXCEPT ![last'.id] = last'.arg]
                  /\ storage' = storage ]_vars

\* C6 witness: storeToken with remember false over a durable tier holding a
\* token wrote the ephemeral tier and left the durable one.
C6_Witness ==
    /\ last.op = "storeToken" /\ ~last.opt /\ last.id = AuthLabel
    /\ Truthy(last.preS) /\ storage[AuthLabel] = last.preS
    /\ last.preT # last.arg /\ tempStorage[AuthLabel] = last.arg
    /\ last.preS # last.arg

-----------------------------------------------------------------------------
(* Claims about Auth, checked under Spec *)

\* C1: every login whose authenticate resolves with a token T emits exactly
\* one 'auth:token-changed' event, whose old is the authToken cached when the
\* login's storeToken runs (absent when no storeToken ran before) and whose
\* new is T; no other step of a login emits.
C1_LoginEmitsOneEvent ==
    [][ /\ (last'.op = "authResolved")
            => /\ emitted' = Append(emitted, [old |-> authToken, new |-> last'.arg])
               /\ (emitted = <<>>) => (emitted'[1].old = Absent)
        /\ (last'.op # "authResolved") => (emitted' = emitted) ]_vars

\* C1 witness: a second login resolved with a token other than the first's.
C1_Witness ==
    /\ last.op = "authResolved"
    /\ Len(emitted) = 2
    /\ emitted[1].old = Absent
    /\ emitted[2].old = emitted[1].new
    /\ emitted[2].new = last.arg
    /\ emitted[2].new # emitted[2].old

\* C2: after logout() neither tier holds a value for the label, whichever
\* tier held a token before, and isAuthenticated() is false.
C2_LogoutClears ==
    last.op = "logout"
        => /\ storage[AuthLabel] = Absent
           /\ tempStorage[AuthLabel] = Absent
           /\ ~IsAuthenticated

\* C2 witness: logout() ran when both tiers held a non-empty token.
C2_Witness ==
    /\ last.op = "logout"
    /\ Truthy(last.preS) /\ Truthy(last.preT)
    /\ ~IsAuthenticated

\* C3: login with an unregistered module identifier, and signup without the
\* basic module, throw: no module method is called, no promise chain starts,
\* no event is emitted and the tiers, the cache and the user are unchanged;
\* with the module registered neither throws.
C3_MissingModuleThrows ==
    [][ /\ (last'.op = "login")
            => IF last'.id \in authModules
               THEN ~last'.threw /\ last'.called = "authenticate"
               ELSE /\ last'.threw /\ last'.called = "none"
                    /\ UNCHANGED <<storage, tempStorage, authToken, emitted,
                                   user, logins>>
        /\ (last'.op = "signup")
            => IF "basic" \in authModules
               THEN ~last'.threw /\ last'.called = "signup"
               ELSE /\ last'.threw /\ last'.called = "none"
                    /\ UNCHANGED <<storage, tempStorage, authToken, emitted,
                                   user, logins>> ]_vars

\* C3 witness: login('basic') threw on an Auth without the basic module that
\* had logged in through another module before.
C3_Witness ==
    /\ last.op = "login" /\ last.threw
    /\ last.id = "basic" /\ "basic" \notin authModules
    /\ emitted # <<>>

\* C8: when authenticate rejects, the promise login returned rejects with the
\* same error and nothing else happens: no token is stored, no event is
\* emitted, the cache is unchanged, and the user is neither loaded nor stored.
C8_RejectedLoginDoesNothing ==
    [][ (last'.op = "authRejected")
          => /\ logins'[last'.slot].phase = "rejected"
             /\ logins'[last'.slot].err = last'.err
             /\ \A j \in 1..MaxLogins : j # last'.slot => logins'[j] = logins[j]
             /\ UNCHANGED <<storage, tempStorage, authToken, emitted, user>> ]_vars

\* C8 witness: a login rejected by its module on an Auth that stored nothing.
C8_Witness ==
    /\ last.op = "authRejected"
    /\ logins[last.slot].phase = "rejected"
    /\ logins[last.slot].err = "invalid credentials"
    /\ emitted = <<>> /\ authToken = Absent
    /\ ~user.loaded /\ ~user.stored
    /\ ~IsAuthenticated

-----------------------------------------------------------------------------
(* Claims about the browser flow, checked under SpecFlow *)

\* The value of the 'token' query parameter of a URL, absent when the URL has
\* no query string or no such parameter.
TokenParameter(url) ==
    LET q == QueryString(url)
    IN  IF q = Absent THEN Absent
        ELSE ParamsGet(Split(q, "&"), TokenKey, Len(Split(q, "&")))

\* The flow after a successful redirect: resolved with the token, the surface
\* closed once, the exit and loaderror listeners detached once each.
ResolvedAndClosed(token) ==
    /\ deferred = [state |-> "resolved", value |-> token, error |-> "none"]
    /\ ~surface.open /\ surface.closes = 1
    /\ surface.removed["exit"] = 1 /\ surface.removed["loaderror"] = 1
    /\ surface.listeners = {"loadstart"}

\* C9 as stated: a loadstart event (on a flow still pending) whose URL matches
\* the expected prefix resolves the flow with the value of the 'token' query
\* parameter, invokes close() once and detaches the exit and loaderror
\* listeners exactly once.
C9_AsStated ==
    (last.op = "loadstart" /\ last.opt /\ MatchesPrefix(last.url))
        => ResolvedAndClosed(TokenParameter(last.url))

\* The part of C9 the code keeps: the same, for a URL that has a query string.
C9_WithQueryString ==
    (last.op = "loadstart" /\ last.opt /\ MatchesPrefix(last.url)
        /\ QueryString(last.url) # Absent)
        => /\ ~last.threw
           /\ ResolvedAndClosed(TokenParameter(last.url))

\* C10: a loadstart event whose URL does not match the expected prefix rejects
\* the flow (when it is still pending, with the unexpected-URL error, which
\* login's promise rejects with), does not invoke close(), and leaves the
\* surface open with the exit, loaderror and loadstart listeners attached.
C10_MismatchRejectsWithoutClose ==
    [][ (last'.op = "loadstart" /\ ~MatchesPrefix(last'.url))
          => /\ ~last'.threw
             /\ deferred'.state = "rejected"
             /\ (deferred.state = "pending")
                    => /\ deferred'.error = ErrUnexpectedUrl
                       /\ logins'[FlowLoginSlot].phase = "rejected"
                       /\ logins'[FlowLoginSlot].err = ErrUnexpectedUrl
             /\ surface' = surface
             /\ surface'.open /\ surface'.closes = 0
             /\ surface'.listeners = SurfaceEvents
             /\ UNCHANGED <<storage, tempStorage, authToken, emitted, user>> ]_vars

\* C10 witness: the first event of a flow was a loadstart of an https URL of
\* the expected host, which is off the prefix.
C10_Witness ==
    /\ last.op = "loadstart" /\ last.opt /\ last.url = UrlHttps
    /\ deferred.state = "rejected" /\ deferred.error = ErrUnexpectedUrl
    /\ logins[FlowLoginSlot].phase = "rejected"
    /\ surface.open /\ surface.closes = 0
    /\ surface.listeners = SurfaceEvents


C12_RejectsWithoutRequest ==
    [][ /\ (last'.op = "login" /\ last'.id = "basic"
                /\ (last'.email \in {Absent, Empty} \/ last'.password \in {Absent, Empty}))
            => /\ deferred' = Reject(Pending, ErrValidation)
               /\ logins'[FlowLoginSlot].phase = "rejected"
               /\ logins'[FlowLoginSlot].err = ErrValidation
               /\ request.state = "none" /\ request' = request
               /\ surface' = NoSurface
        /\ (last'.op = "login" /\ last'.id \in BrowserModules /\ ~iab)
            => /\ deferred' = Reject(Pending, ErrPluginMissing)
               /\ logins'[FlowLoginSlot].phase = "rejected"
               /\ logins'[FlowLoginSlot].err = ErrPluginMissing
               /\ request.state = "none" /\ request' = request
               /\ surface' = NoSurface
        /\ request'.state = "none" => surface' = NoSurface
      ]_vars

\* The browser flow was started without the capability: rejected, no request
\* issued, no surface opened.
C12_Witness ==
    /\ last.op = "login" /\ last.id \in BrowserModules /\ ~iab
    /\ deferred = Reject(Pending, ErrPluginMissing)
    /\ logins[FlowLoginSlot].phase = "rejected"
    /\ request.state = "none"
    /\ surface = NoSurface

\* C15: the flow's promise is settled exactly once: once the deferred is
\* settled, no step changes it or emits a second event, and a later exit,
\* loaderror or loadstart event leaves the outcome of the login, the stored
\* token and the user as they were.
C15_SettledOnce ==
    [][ (deferred.state # "pending")
          => /\ deferred' = deferred
             /\ emitted' = emitted
             /\ (last'.op \in SurfaceEvents)
                    => UNCHANGED <<logins, storage, tempStorage, authToken, user>>
      ]_vars

\* A loaderror rejected the flow and an exit came after it: the flow and the
\* login are still rejected with the loaderror error.
C15_Witness ==
    /\ last.op = "exit" /\ ~last.opt
    /\ deferred = Reject(Pending, ErrLoadError)
    /\ logins[FlowLoginSlot].phase = "rejected"
    /\ logins[FlowLoginSlot].err = ErrLoadError

\* C16: once the surface is open the flow has no timeout and no cancellation:
\* while the deferred is pending, a step that is no exit, loaderror or
\* loadstart event (a logout, say) leaves it pending and the surface open, and
\* as long as it is pending the login on it waits for authenticate, no token
\* is stored and no event is emitted.
C16_PendingUntilEvent ==
    [][ (surface.open /\ deferred.state = "pending")
          => /\ (last'.op \notin SurfaceEvents)
                    => /\ deferred' = deferred
                       /\ surface' = surface
             /\ (deferred'.state = "pending")
                    => /\ logins'[FlowLoginSlot].phase = "auth"
                       /\ emitted' = <<>>
                       /\ authToken' = Absent
                       /\ storage'[AuthLabel] = Absent
                       /\ tempStorage'[AuthLabel] = Absent
      ]_vars

\* The surface is open, the last call was a logout, and the flow is still
\* pending with nothing stored and nothing emitted.
C16_Witness ==
    /\ last.op = "logout"
    /\ surface.open /\ deferred.state = "pending"
    /\ logins[FlowLoginSlot].phase = "auth"
    /\ emitted = <<>> /\ storage[AuthLabel] = Absent

-----------------------------------------------------------------------------
(* Claims about signup, checked under SpecSignup *)

\* The 'error_type_parameter' strings of a response's error details, in order:
\* one for each detail that has an error_type, none when there is no list.
ErrorTypeParameterStrings(res) ==
    IF res.shape = "error" /\ res.kind = "array"
    THEN LET HasType(d) == ~d.isNull /\ d.error_type \notin {Absent, Empty}
             ds == SelectSeq(res.items, HasType)
         IN  [k \in 1..Len(ds) |->
                 ds[k].error_type \o <<"_">> \o StringOf(ds[k].parameter)]
    ELSE <<>>

\* C13 as stated: whenever the POST issued by BasicAuth.signup fails, the
\* promise of signup is rejected (never left pending) with a DetailedError
\* whose codes are exactly the 'error_type_parameter' strings of the
\* response's error details, in order.
C13_AsStated ==
    (last.op = "signupFailed")
        => /\ signup.state = "rejected"
           /\ signup.codes = ErrorTypeParameterStrings(last.res)

\* The part of C13 the code keeps: the same, whenever
\* getDetailedErrorFromResponse returns.
C13_WhenNotThrown ==
    (last.op = "signupFailed" /\ ~last.threw)
        => /\ signup.state = "rejected"
           /\ signup.codes = ErrorTypeParameterStrings(last.res)

\* A response is malformed when it has no list of error details.
Malformed(res) == res.shape # "error" \/ res.kind # "array"

\* C14 as stated: getDetailedErrorFromResponse(res) never throws, and for
\* every absent or malformed response shape it returns a DetailedError with an
\* empty code list.
C14_AsStated ==
    (last.op = "signupFailed")
        => /\ ~last.threw
           /\ Malformed(last.res) => last.codes = <<>>

\* The part of C14 the code keeps: no throw and an empty list when the read of
\* res.body.error.details itself throws, or yields a number, a string or an
\* object that is no array.
C14_WhenReadThrows ==
    (last.op = "signupFailed" /\ Malformed(last.res)
        /\ ~(last.res.shape = "error" /\ last.res.kind \in {"undefined", "null"}))
        => /\ ~last.threw
           /\ last.codes = <<>>

-----------------------------------------------------------------------------
(* Claims about logins and logouts interleaved, checked under Spec *)

\* The logins whose authenticate has resolved: those that load the user, that
\* have resolved, or that were rejected by load().
PastAuthenticate ==
    {i \in 1..MaxLogins :
        \/ logins[i].phase \in {"load", "resolved"}
        \/ logins[i].phase = "rejected" /\ logins[i].err = "load failed"}

\* C17: across every interleaving of login completions and logouts the
\* emitted events form a chain: the first event's old is absent and every
\* later event's old is the event before's new.  There is one event for each
\* resolved authenticate and none for a logout, and the cache is the last
\* event's new whatever logouts came in between.
C17_EventsFormChain ==
    /\ \A k \in 1..Len(emitted) :
           emitted[k].old = IF k = 1 THEN Absent ELSE emitted[k - 1].new
    /\ Len(emitted) = Cardinality(PastAuthenticate)
    /\ authToken = IF emitted = <<>> THEN Absent ELSE emitted[Len(emitted)].new

\* The first login was completed, a logout emptied the tiers and cleared the
\* user, and the second login's authenticate resolved right after it: its
\* event reports the first login's non-empty token as old.
C17_Witness ==
    /\ last.op = "authResolved" /\ last.slot = 2 /\ last.afterLogout
    /\ logins[1].phase = "resolved" /\ ~user.loaded
    /\ Len(emitted) = 2
    /\ emitted[2].old = emitted[1].new
    /\ Truthy(emitted[2].old)

\* What the authenticate of a login that resolved with the token right after
\* a logout has done: the token is in the tier the login chose, the last event
\* carries it, the login loads the user, and the user is not stored yet.
ResolvedAfterLogout(i, token) ==
    /\ (IF logins[i].remember THEN storage ELSE tempStorage)[AuthLabel] = token
    /\ emitted # <<>> /\ emitted[Len(emitted)].new = token
    /\ authToken = token
    /\ logins[i].phase = "load"
    /\ ~user.stored

-----------------------------------------------------------------------------
(* Claims about Cordova, checked under SpecCordova *)

\* C20: after bootstrap() no 'cordova:pause' or 'cordova:resume' is emitted
\* before the first 'cordova:deviceready': a pause or resume DOM event that
\* fires while no deviceready has been handled finds no listener and emits
\* nothing.  Each deviceready DOM event emits one 'cordova:deviceready' for
\* each bootstrap() call made before it: exactly one after one bootstrap().
C20_NoPauseBeforeDeviceReady ==
    [][ /\ \A k \in 1..Len(cordova'.emitted) :
               cordova'.emitted[k] \in {"cordova:pause", "cordova:resume"}
                   => \E j \in 1..(k - 1) :
                          cordova'.emitted[j] = "cordova:deviceready"
        /\ (last'.op = "dom" /\ last'.id \in {"pause", "resume"}
                /\ \A j \in 1..Len(cordova.emitted) :
                       cordova.emitted[j] # "cordova:deviceready")
            => cordova'.emitted = cordova.emitted
        /\ (last'.op = "dom" /\ last'.id = "deviceready")
            => /\ cordova'.emitted =
                      cordova.emitted \o Copies(cordova.bootstraps, "cordova:deviceready")
               /\ (cordova.bootstraps = 1)
                      => cordova'.emitted =
                             Append(cordova.emitted, "cordova:deviceready")
      ]_vars

\* After one bootstrap() a pause fired before any deviceready: it found no
\* listener and nothing was emitted.
C20_Witness ==
    /\ last.op = "dom" /\ last.id = "pause" /\ last.slot = 0
    /\ cordova.bootstraps = 1 /\ cordova.listeners["deviceready"] = 1
    /\ cordova.fired = 1
    /\ cordova.emitted = <<>>
=============================================================================
